---- MODULE Spec2Model ----
(***************************************************************************)
(* QuickPoll server: the in-memory PollStore, the PollService business     *)
(* logic, the TimerService close logic and the SocketController handlers,  *)
(* modelled as one state machine.  Every action is one handler of the      *)
(* single-threaded event loop, run to completion.                          *)
(***************************************************************************)
EXTENDS Integers, Sequences, FiniteSets, TLC

\* ------------------------------------------------------------------ bounds
\* question ids are fresh nanoid strings: modelled as 1..MaxQuestions
MaxQuestions == 2
\* cap on the number of submissions accepted in one run (unbounded in the code)
MaxSubmissions == 2

\* ------------------------------------------------------------------ inputs
PollIds == {"p1"}
\* the sockets that send the teacher events, and those that send the student events
Teachers == {"t1"}
Students == {"s1", "s2"}
Sockets == Teachers \cup Students
\* the senders of student events where close triggers are forced
ForcedStudents == {"s1"}
Names == {"ann", "bob"}
\* display names that differ only in case, for the admission checks
CaseNames == {"ann", "Ann", "bob"}
OptionInputs == { <<"A", "B">>, <<"A">>, <<"A", "A">>,
                  <<"A", "B", "C", "D", "E", "F", "G">> }
TimeoutInputs == {5, 60, 301}
AnswerInputs == {"option_0", "option_1", "option_9"}

\* ------------------------------------------------------- program constants
MAX_STUDENTS_PER_POLL == 100
MAX_OPTIONS_PER_QUESTION == 6
MIN_TIMEOUT == 10
MAX_TIMEOUT == 300

\* `option_${index}` for the 0-based index of an option
OptionIdTable == <<"option_0", "option_1", "option_2", "option_3", "option_4", "option_5">>

OptionId(index) == OptionIdTable[index + 1]

\* String.prototype.toLowerCase on the display names in use
toLowerCase(name) == IF name = "Ann" THEN "ann" ELSE name

\* null / undefined for a student's answer
Nullish == "null"

\* poll.currentQuestion = null
NoQuestion == [id |-> 0, options |-> <<>>, timerHandle |-> 0]

NoResults == [options |-> <<>>, totalResponses |-> 0, participants |-> <<>>]

VARIABLES
    polls,          \* PollStore.polls: pollId -> Poll (a function on the existing ids)
    teacherToPoll,  \* PollStore.teacherToPoll
    studentToPoll,  \* PollStore.studentToPoll
    timers,         \* pending setTimeout timers: handle and the (pollId, questionId) of the closure
    nextQuestion,   \* how many question ids nanoid has produced
    submissions,    \* how many submissions have been accepted so far
    connected,      \* sockets whose connection is still open
    emitted,        \* the room broadcasts of the last handler, in order
    cleared,        \* the timer handles the last handler passed to clearTimeout
    reply,          \* what the last handler did and the acknowledgement it sent
    accepted        \* history: per poll, how many submissions of each socket the open question accepted

vars == <<polls, teacherToPoll, studentToPoll, timers, nextQuestion, submissions,
          connected, emitted, cleared, reply, accepted>>

\* ------------------------------------------------ Map<string, Student>
\* poll.students is a JS Map: a sequence of entries in insertion order
MapIndex(students, socketId) ==
    IF \E i \in 1..Len(students) : students[i].socketId = socketId
    THEN CHOOSE i \in 1..Len(students) : students[i].socketId = socketId
    ELSE 0

MapHas(students, socketId) == MapIndex(students, socketId) # 0

MapGet(students, socketId) == students[MapIndex(students, socketId)]

\* Map.set: an existing key keeps its position, a new key goes last
MapSet(students, student) ==
    IF MapHas(students, student.socketId)
    THEN [students EXCEPT ![MapIndex(students, student.socketId)] = student]
    ELSE Append(students, student)

\* Map.delete
MapDelete(students, socketId) ==
    SelectSeq(students, LAMBDA st : st.socketId # socketId)

\* new Map()
EmptyMap == [k \in {} |-> ""]

\* delete of a key of teacherToPoll / studentToPoll
Without(map, key) == [k \in (DOMAIN map) \ {key} |-> map[k]]

\* set of a key of teacherToPoll / studentToPoll / polls
With(map, key, value) == [k \in (DOMAIN map) \cup {key} |-> IF k = key THEN value ELSE map[k]]

\* ------------------------------------------------------------ PollStore
NewPoll(teacherSocketId) ==
    [teacherSocketId |-> teacherSocketId,
     students        |-> <<>>,
     currentQuestion |-> NoQuestion,
     questionHistory |-> <<>>,
     status          |-> "waiting"]

\* PollStore.getPollByTeacher: the poll id, or "" for undefined
getPollByTeacher(teacherSocketId) ==
    IF teacherSocketId \in DOMAIN teacherToPoll /\ teacherToPoll[teacherSocketId] \in DOMAIN polls
    THEN teacherToPoll[teacherSocketId]
    ELSE ""

\* PollStore.getPollByStudent: the poll id, or "" for undefined
getPollByStudent(studentSocketId) ==
    IF studentSocketId \in DOMAIN studentToPoll /\ studentToPoll[studentSocketId] \in DOMAIN polls
    THEN studentToPoll[studentSocketId]
    ELSE ""

\* PollStore.updateStudent with updates = { hasAnswered, answer }
updateStudent(poll, socketId, hasAnswered, answer) ==
    IF MapHas(poll.students, socketId)
    THEN [poll EXCEPT !.students =
            MapSet(poll.students,
                   [MapGet(poll.students, socketId) EXCEPT !.hasAnswered = hasAnswered,
                                                           !.answer = answer])]
    ELSE poll

\* poll.students.forEach((student, socketId) => updateStudent(.., { hasAnswered: false, answer: null }))
ResetStudents(poll) ==
    [poll EXCEPT !.students =
        [i \in 1..Len(poll.students) |->
            [poll.students[i] EXCEPT !.hasAnswered = FALSE, !.answer = Nullish]]]

\* ---------------------------------------------------------- TimerService
\* the students counted by calculateResults: hasAnswered && answer
Respondents(poll) ==
    SelectSeq(poll.students, LAMBDA st : st.hasAnswered /\ st.answer # Nullish)

\* voteCounts.get(option.id) || 0
VoteCount(poll, optionId) ==
    Cardinality({i \in 1..Len(Respondents(poll)) : Respondents(poll)[i].answer = optionId})

\* TimerService.calculateResults
calculateResults(poll) ==
    IF poll.currentQuestion = NoQuestion
    THEN NoResults
    ELSE [options |->
            [i \in 1..Len(poll.currentQuestion.options) |->
                [poll.currentQuestion.options[i] EXCEPT
                    !.votes = VoteCount(poll, poll.currentQuestion.options[i].id)]],
          totalResponses |-> Len(Respondents(poll)),
          participants |-> [i \in 1..Len(Respondents(poll)) |-> Respondents(poll)[i].name]]

\* checkAllAnswered without the early return for a poll with no students
checkAllAnsweredNoSizeCheck(poll) ==
    \A i \in 1..Len(poll.students) : poll.students[i].hasAnswered

\* TimerService.checkAllAnswered
checkAllAnswered(poll) ==
    /\ Len(poll.students) # 0
    /\ \A i \in 1..Len(poll.students) : poll.students[i].hasAnswered

\* onTimerExpired without the comparison of the question ids
onTimerExpiredActsAnyQuestion(ps, pollId, questionId) ==
    /\ pollId \in DOMAIN ps
    /\ ps[pollId].currentQuestion # NoQuestion

\* onTimerExpired that also returns early for a poll without students
onTimerExpiredActsIfStudents(ps, pollId, questionId) ==
    /\ pollId \in DOMAIN ps
    /\ ps[pollId].currentQuestion # NoQuestion
    /\ ps[pollId].currentQuestion.id = questionId
    /\ Len(ps[pollId].students) # 0

\* the two early returns of onTimerExpired
onTimerExpiredActs(ps, pollId, questionId) ==
    /\ pollId \in DOMAIN ps
    /\ ps[pollId].currentQuestion # NoQuestion
    /\ ps[pollId].currentQuestion.id = questionId

\* the entry onTimerExpired pushes to poll.questionHistory
HistoryEntry(poll) ==
    [questionId     |-> poll.currentQuestion.id,
     options        |-> poll.currentQuestion.options,
     totalResponses |-> calculateResults(poll).totalResponses,
     participants   |-> calculateResults(poll).participants]

\* ClosePoll that forgets poll.currentQuestion = null
ClosePollKeepsQuestion(poll) ==
    ResetStudents([poll EXCEPT !.questionHistory = Append(@, HistoryEntry(poll)),
                               !.status = "waiting"])

\* ClosePoll that forgets poll.status = 'waiting'
ClosePollKeepsStatus(poll) ==
    ResetStudents([poll EXCEPT !.questionHistory = Append(@, HistoryEntry(poll)),
                               !.currentQuestion = NoQuestion])

\* ClosePoll that stores the new entry in place of the history
ClosePollReplacesHistory(poll) ==
    ResetStudents([poll EXCEPT !.questionHistory = << HistoryEntry(poll) >>,
                               !.currentQuestion = NoQuestion,
                               !.status = "waiting"])

\* the mutation of the poll by onTimerExpired once its guards have passed
ClosePoll(poll) ==
    ResetStudents([poll EXCEPT !.questionHistory = Append(@, HistoryEntry(poll)),
                               !.currentQuestion = NoQuestion,
                               !.status = "waiting"])

\* onTimerExpired that closes the open question of every poll
onTimerExpiredAllPolls(ps, pollId, questionId) ==
    IF onTimerExpiredActs(ps, pollId, questionId)
    THEN [p \in DOMAIN ps |->
            IF ps[p].currentQuestion # NoQuestion THEN ClosePoll(ps[p]) ELSE ps[p]]
    ELSE ps

\* TimerService.onTimerExpired: the store it leaves
onTimerExpired(ps, pollId, questionId) ==
    IF onTimerExpiredActs(ps, pollId, questionId)
    THEN [ps EXCEPT ![pollId] = ClosePoll(@)]
    ELSE ps

Emit(event, room, questionId, results) ==
    [event |-> event, room |-> room, questionId |-> questionId, results |-> results]

\* onTimerExpired that broadcasts the results twice
onTimerExpiredEmitsTwice(ps, pollId, questionId) ==
    IF onTimerExpiredActs(ps, pollId, questionId)
    THEN << Emit("timeUp", pollId, questionId, NoResults),
            Emit("showResults", pollId, questionId, calculateResults(ps[pollId])),
            Emit("showResults", pollId, questionId, calculateResults(ps[pollId])) >>
    ELSE <<>>

\* TimerService.onTimerExpired: what it broadcasts to the room
onTimerExpiredEmits(ps, pollId, questionId) ==
    IF onTimerExpiredActs(ps, pollId, questionId)
    THEN << Emit("timeUp", pollId, questionId, NoResults),
            Emit("showResults", pollId, questionId, calculateResults(ps[pollId])) >>
    ELSE <<>>

\* the early return of endQuestionEarly
endQuestionEarlyActs(ps, pollId) ==
    /\ pollId \in DOMAIN ps
    /\ ps[pollId].currentQuestion # NoQuestion

\* endQuestionEarly without clearTimer
endQuestionEarlyClearsNothing(ps, pollId) == {}

\* TimerService.endQuestionEarly: the handles it passes to clearTimeout
endQuestionEarlyClears(ps, pollId) ==
    IF endQuestionEarlyActs(ps, pollId) /\ ps[pollId].currentQuestion.timerHandle # 0
    THEN {ps[pollId].currentQuestion.timerHandle}
    ELSE {}

\* TimerService.endQuestionEarly: the store it leaves
endQuestionEarly(ps, pollId) ==
    IF endQuestionEarlyActs(ps, pollId)
    THEN onTimerExpired(ps, pollId, ps[pollId].currentQuestion.id)
    ELSE ps

\* TimerService.endQuestionEarly: what it broadcasts
endQuestionEarlyEmits(ps, pollId) ==
    IF endQuestionEarlyActs(ps, pollId)
    THEN onTimerExpiredEmits(ps, pollId, ps[pollId].currentQuestion.id)
    ELSE <<>>

\* clearTimer that cancels nothing
ClearAllNothing(pending, hs) == pending

\* TimerService.clearTimer / clearTimeout: the pending timers once the handles in hs are cleared
ClearAll(pending, hs) == {t \in pending : t.handle \notin hs}

\* ----------------------------------------------------------- PollService
\* addStudentToPoll without the capacity check
addStudentToPollErrorNoCapacity(ps, pollId, studentName) ==
    IF pollId \notin DOMAIN ps THEN "POLL_NOT_FOUND"
    ELSE IF \E i \in 1..Len(ps[pollId].students) :
                toLowerCase(ps[pollId].students[i].name) = toLowerCase(studentName)
         THEN "DUPLICATE_NAME"
    ELSE ""

\* addStudentToPoll that compares the names as they are
addStudentToPollErrorCaseSensitive(ps, pollId, studentName) ==
    IF pollId \notin DOMAIN ps THEN "POLL_NOT_FOUND"
    ELSE IF Len(ps[pollId].students) >= MAX_STUDENTS_PER_POLL THEN "MAX_STUDENTS_REACHED"
    ELSE IF \E i \in 1..Len(ps[pollId].students) : ps[pollId].students[i].name = studentName
         THEN "DUPLICATE_NAME"
    ELSE ""

\* PollService.addStudentToPoll: the error it throws, "" for none
addStudentToPollError(ps, pollId, studentName) ==
    IF pollId \notin DOMAIN ps THEN "POLL_NOT_FOUND"
    ELSE IF Len(ps[pollId].students) >= MAX_STUDENTS_PER_POLL THEN "MAX_STUDENTS_REACHED"
    ELSE IF \E i \in 1..Len(ps[pollId].students) :
                toLowerCase(ps[pollId].students[i].name) = toLowerCase(studentName)
         THEN "DUPLICATE_NAME"
    ELSE ""

\* a Student record that is built as having answered
NewStudentAnswered(studentSocketId, studentName) ==
    [socketId |-> studentSocketId, name |-> studentName,
     hasAnswered |-> TRUE, answer |-> Nullish]

\* the Student record addStudentToPoll builds
NewStudent(studentSocketId, studentName) ==
    [socketId |-> studentSocketId, name |-> studentName,
     hasAnswered |-> FALSE, answer |-> Nullish]

\* PollStore.addStudent on the poll
addStudent(poll, student) == [poll EXCEPT !.students = MapSet(@, student)]

\* PollStore.removeStudent on the poll
\* removeStudent that also takes the student's vote back from the open question
removeStudentRetractsVote(poll, socketId) ==
    [poll EXCEPT
        !.students = MapDelete(@, socketId),
        !.currentQuestion =
            IF @ # NoQuestion /\ MapHas(poll.students, socketId)
                              /\ MapGet(poll.students, socketId).hasAnswered
            THEN [@ EXCEPT !.options =
                    [i \in 1..Len(@) |->
                        IF @[i].id = MapGet(poll.students, socketId).answer
                        THEN [@[i] EXCEPT !.votes = @ - 1] ELSE @[i]]]
            ELSE @]

removeStudent(poll, socketId) == [poll EXCEPT !.students = MapDelete(@, socketId)]

\* PollService.removeStudentFromPoll: the error it throws, "" for none
removeStudentFromPollError(ps, pollId, studentSocketId) ==
    IF pollId \notin DOMAIN ps THEN "POLL_NOT_FOUND"
    ELSE IF ~MapHas(ps[pollId].students, studentSocketId) THEN "STUDENT_NOT_FOUND"
    ELSE ""

\* startQuestion without the check for an active question
startQuestionErrorNone(poll) == ""

\* PollService.startQuestion: the error it throws, "" for none
startQuestionError(poll) ==
    IF poll.currentQuestion # NoQuestion THEN "POLL_ALREADY_ACTIVE" ELSE ""

\* the Question record startQuestion builds (timerHandle is set by the handler)
NewQuestion(questionId, options) ==
    [id |-> questionId,
     options |-> [i \in 1..Len(options) |->
                    [id |-> OptionId(i - 1), text |-> options[i], votes |-> 0]],
     timerHandle |-> 0]

\* PollService.startQuestion: the poll it leaves
startQuestion(poll, questionId, options) ==
    ResetStudents([poll EXCEPT !.currentQuestion = NewQuestion(questionId, options),
                               !.status = "active"])

\* submitAnswer without the hasAnswered check
submitAnswerErrorNoAnsweredCheck(poll, studentSocketId, questionId, answer) ==
    IF poll.currentQuestion = NoQuestion THEN "POLL_NOT_ACTIVE"
    ELSE IF poll.currentQuestion.id # questionId THEN "Question has changed"
    ELSE IF ~MapHas(poll.students, studentSocketId) THEN "STUDENT_NOT_FOUND"
    ELSE IF ~\E i \in 1..Len(poll.currentQuestion.options) :
                poll.currentQuestion.options[i].id = answer
         THEN "INVALID_ANSWER"
    ELSE ""

\* submitAnswer without the validation of the option id
submitAnswerErrorNoOptionCheck(poll, studentSocketId, questionId, answer) ==
    IF poll.currentQuestion = NoQuestion THEN "POLL_NOT_ACTIVE"
    ELSE IF poll.currentQuestion.id # questionId THEN "Question has changed"
    ELSE IF ~MapHas(poll.students, studentSocketId) THEN "STUDENT_NOT_FOUND"
    ELSE IF MapGet(poll.students, studentSocketId).hasAnswered THEN "ALREADY_ANSWERED"
    ELSE ""

\* submitAnswer that validates the option id before it looks the student up
submitAnswerErrorOptionFirst(poll, studentSocketId, questionId, answer) ==
    IF poll.currentQuestion = NoQuestion THEN "POLL_NOT_ACTIVE"
    ELSE IF poll.currentQuestion.id # questionId THEN "Question has changed"
    ELSE IF ~\E i \in 1..Len(poll.currentQuestion.options) :
                poll.currentQuestion.options[i].id = answer
         THEN "INVALID_ANSWER"
    ELSE IF ~MapHas(poll.students, studentSocketId) THEN "STUDENT_NOT_FOUND"
    ELSE IF MapGet(poll.students, studentSocketId).hasAnswered THEN "ALREADY_ANSWERED"
    ELSE ""

\* PollService.submitAnswer: the error it throws, "" for none
submitAnswerError(poll, studentSocketId, questionId, answer) ==
    IF poll.currentQuestion = NoQuestion THEN "POLL_NOT_ACTIVE"
    ELSE IF poll.currentQuestion.id # questionId THEN "Question has changed"
    ELSE IF ~MapHas(poll.students, studentSocketId) THEN "STUDENT_NOT_FOUND"
    ELSE IF MapGet(poll.students, studentSocketId).hasAnswered THEN "ALREADY_ANSWERED"
    ELSE IF ~\E i \in 1..Len(poll.currentQuestion.options) :
                poll.currentQuestion.options[i].id = answer
         THEN "INVALID_ANSWER"
    ELSE ""

\* option.votes++ on the option found by id
IncrementVotes(options, answer) ==
    [i \in 1..Len(options) |->
        IF options[i].id = answer THEN [options[i] EXCEPT !.votes = @ + 1] ELSE options[i]]

\* PollService.submitAnswer: the poll it leaves when nothing is thrown
submitAnswer(poll, studentSocketId, answer) ==
    [updateStudent(poll, studentSocketId, TRUE, answer)
        EXCEPT !.currentQuestion.options = IncrementVotes(@, answer)]

\* PollService.getPollResults (the poll has a current question)
getPollResults(poll) ==
    [options |-> poll.currentQuestion.options,
     totalResponses |-> Len(SelectSeq(poll.students, LAMBDA st : st.hasAnswered)),
     participants |->
        [i \in 1..Len(SelectSeq(poll.students, LAMBDA st : st.hasAnswered)) |->
            SelectSeq(poll.students, LAMBDA st : st.hasAnswered)[i].name]]

\* deletePoll that forgets clearTimeout
deletePollClearsNothing(ps, pollId) == {}

\* PollStore.deletePoll: the handles it passes to clearTimeout
deletePollClears(ps, pollId) ==
    IF pollId \in DOMAIN ps /\ ps[pollId].currentQuestion.timerHandle # 0
    THEN {ps[pollId].currentQuestion.timerHandle}
    ELSE {}

\* startQuestionSchema without the refinement 'Options must be unique'
ValidStartQuestionNoUnique(options, timeout) ==
    /\ Len(options) >= 2
    /\ Len(options) <= MAX_OPTIONS_PER_QUESTION
    /\ timeout >= MIN_TIMEOUT
    /\ timeout <= MAX_TIMEOUT

\* startQuestionSchema: 2..6 unique options, integer timeout in 10..300
ValidStartQuestion(options, timeout) ==
    /\ Len(options) >= 2
    /\ Len(options) <= MAX_OPTIONS_PER_QUESTION
    /\ Cardinality({options[i] : i \in 1..Len(options)}) = Len(options)
    /\ timeout >= MIN_TIMEOUT
    /\ timeout <= MAX_TIMEOUT

\* ------------------------------------------------------ SocketController
\* the acknowledgement callback of a handler, with the request it answers
\* (a rejected request is recorded by its sender and its error only)
Reply(op, socket, pollId, questionId, answer, result) ==
    [op |-> op, socket |-> socket, pollId |-> pollId,
     questionId |-> questionId, answer |-> answer, result |-> result]

NoAccepted == [k \in Sockets |-> 0]

\* a handler that fails before touching the store
Rejected(r) ==
    /\ reply' = r
    /\ emitted' = <<>>
    /\ cleared' = {}
    /\ UNCHANGED <<polls, teacherToPoll, studentToPoll, timers, nextQuestion, submissions, connected, accepted>>

Init ==
    /\ polls = EmptyMap
    /\ teacherToPoll = EmptyMap
    /\ studentToPoll = EmptyMap
    /\ timers = {}
    /\ nextQuestion = 0
    /\ submissions = 0
    /\ connected = Sockets
    /\ emitted = <<>>
    /\ cleared = {}
    /\ reply = Reply("init", "", "", 0, "", "ok")
    /\ accepted = [p \in PollIds |-> NoAccepted]

\* socket.on(CREATE_POLL): PollService.createPoll throws
CreatePollFail(socket) ==
    /\ socket \in connected
    /\ getPollByTeacher(socket) # ""
    /\ Rejected(Reply("createPoll", socket, "", 0, "", "You already have an active poll"))

\* CREATE_POLL without the check for an existing poll of the teacher
CreatePollOkUnchecked(socket, pollId) ==
    /\ socket \in connected
    /\ pollId \notin DOMAIN polls
    /\ polls' = With(polls, pollId, NewPoll(socket))
    /\ teacherToPoll' = With(teacherToPoll, socket, pollId)
    /\ reply' = Reply("createPoll", socket, pollId, 0, "", "ok")
    /\ emitted' = <<>>
    /\ cleared' = {}
    /\ UNCHANGED <<studentToPoll, timers, nextQuestion, submissions, connected, accepted>>

\* socket.on(CREATE_POLL): pollId is the id nanoid returns, one no poll has
CreatePollOk(socket, pollId) ==
    /\ socket \in connected
    /\ getPollByTeacher(socket) = ""
    /\ pollId \notin DOMAIN polls
    /\ polls' = With(polls, pollId, NewPoll(socket))
    /\ teacherToPoll' = With(teacherToPoll, socket, pollId)
    /\ reply' = Reply("createPoll", socket, pollId, 0, "", "ok")
    /\ emitted' = <<>>
    /\ cleared' = {}
    /\ UNCHANGED <<studentToPoll, timers, nextQuestion, submissions, connected, accepted>>

\* socket.on(START_QUESTION): validation, lookup or startQuestion throws
StartQuestionFail(socket, options, timeout) ==
    /\ socket \in connected
    /\ LET pollId == getPollByTeacher(socket) IN
        \/ /\ ~ValidStartQuestion(options, timeout)
           /\ Rejected(Reply("startQuestion", socket, "", 0, "", "Validation error"))
        \/ /\ ValidStartQuestion(options, timeout)
           /\ pollId = ""
           /\ Rejected(Reply("startQuestion", socket, "", 0, "", "You do not have an active poll"))
        \/ /\ ValidStartQuestion(options, timeout)
           /\ pollId # ""
           /\ startQuestionError(polls[pollId]) # ""
           /\ Rejected(Reply("startQuestion", socket, pollId, 0, "", startQuestionError(polls[pollId])))

\* START_QUESTION without timerService.startTimer
StartQuestionOkNoTimer(socket, options, timeout) ==
    /\ socket \in connected
    /\ ValidStartQuestion(options, timeout)
    /\ nextQuestion < MaxQuestions
    /\ LET pollId == getPollByTeacher(socket)
           questionId == nextQuestion + 1 IN
        /\ pollId # ""
        /\ startQuestionError(polls[pollId]) = ""
        /\ polls' = [polls EXCEPT ![pollId] = startQuestion(@, questionId, options)]
        /\ timers' = timers
        /\ nextQuestion' = questionId
        /\ UNCHANGED submissions
        /\ emitted' = << Emit("newQuestion", pollId, questionId, NoResults) >>
        /\ reply' = Reply("startQuestion", socket, pollId, questionId, "", "ok")
        /\ accepted' = [accepted EXCEPT ![pollId] = NoAccepted]
    /\ cleared' = {}
    /\ UNCHANGED <<teacherToPoll, studentToPoll, connected>>

\* socket.on(START_QUESTION): startQuestion, startTimer, timerHandle, NEW_QUESTION
StartQuestionOk(socket, options, timeout) ==
    /\ socket \in connected
    /\ ValidStartQuestion(options, timeout)
    /\ nextQuestion < MaxQuestions
    /\ LET pollId == getPollByTeacher(socket)
           questionId == nextQuestion + 1 IN
        /\ pollId # ""
        /\ startQuestionError(polls[pollId]) = ""
        /\ polls' = [polls EXCEPT ![pollId] =
                        [startQuestion(@, questionId, options)
                            EXCEPT !.currentQuestion.timerHandle = questionId]]
        /\ timers' = timers \cup {[handle |-> questionId, pollId |-> pollId,
                                   questionId |-> questionId]}
        /\ nextQuestion' = questionId
        /\ UNCHANGED submissions
        /\ emitted' = << Emit("newQuestion", pollId, questionId, NoResults) >>
        /\ reply' = Reply("startQuestion", socket, pollId, questionId, "", "ok")
        /\ accepted' = [accepted EXCEPT ![pollId] = NoAccepted]
    /\ cleared' = {}
    /\ UNCHANGED <<teacherToPoll, studentToPoll, connected>>

\* socket.on(END_QUESTION): the two errors thrown by the handler
EndQuestionFail(socket) ==
    /\ socket \in connected
    /\ LET pollId == getPollByTeacher(socket) IN
        \/ /\ pollId = ""
           /\ Rejected(Reply("endQuestion", socket, "", 0, "", "You do not have an active poll"))
        \/ /\ pollId # ""
           /\ polls[pollId].currentQuestion = NoQuestion
           /\ Rejected(Reply("endQuestion", socket, pollId, 0, "", "No active question to end"))

\* socket.on(END_QUESTION): timerService.endQuestionEarly
EndQuestionOk(socket) ==
    /\ socket \in connected
    /\ LET pollId == getPollByTeacher(socket) IN
        /\ pollId # ""
        /\ polls[pollId].currentQuestion # NoQuestion
        /\ polls' = endQuestionEarly(polls, pollId)
        /\ timers' = ClearAll(timers, endQuestionEarlyClears(polls, pollId))
        /\ cleared' = endQuestionEarlyClears(polls, pollId)
        /\ emitted' = endQuestionEarlyEmits(polls, pollId)
        /\ reply' = Reply("endQuestion", socket, pollId, polls[pollId].currentQuestion.id, "", "ok")
    /\ UNCHANGED <<teacherToPoll, studentToPoll, nextQuestion, submissions, connected, accepted>>

\* socket.on(REMOVE_STUDENT): the errors thrown by the handler
RemoveStudentFail(socket, studentSocketId) ==
    /\ socket \in connected
    /\ LET pollId == getPollByTeacher(socket) IN
        \/ /\ pollId = ""
           /\ Rejected(Reply("removeStudent", socket, "", 0, "", "You do not have an active poll"))
        \/ /\ pollId # ""
           /\ ~MapHas(polls[pollId].students, studentSocketId)
           /\ Rejected(Reply("removeStudent", socket, pollId, 0, "", "Student not found"))

\* socket.on(REMOVE_STUDENT): removeStudentFromPoll, STUDENT_LEFT
RemoveStudentOk(socket, studentSocketId) ==
    /\ socket \in connected
    /\ LET pollId == getPollByTeacher(socket) IN
        /\ pollId # ""
        /\ MapHas(polls[pollId].students, studentSocketId)
        /\ polls' = [polls EXCEPT ![pollId] = removeStudent(@, studentSocketId)]
        /\ studentToPoll' = Without(studentToPoll, studentSocketId)
        /\ emitted' = << Emit("studentLeft", pollId, 0, NoResults) >>
        /\ reply' = Reply("removeStudent", socket, pollId, 0, "", "ok")
    /\ cleared' = {}
    /\ UNCHANGED <<teacherToPoll, timers, nextQuestion, submissions, connected, accepted>>

\* socket.on(JOIN_POLL): addStudentToPoll throws
JoinPollFail(socket, pollId, studentName) ==
    /\ socket \in connected
    /\ addStudentToPollError(polls, pollId, studentName) # ""
    /\ Rejected(Reply("joinPoll", socket, "", 0, "",
                      addStudentToPollError(polls, pollId, studentName)))

\* socket.on(JOIN_POLL): addStudentToPoll, STUDENT_JOINED
JoinPollOk(socket, pollId, studentName) ==
    /\ socket \in connected
    /\ addStudentToPollError(polls, pollId, studentName) = ""
    /\ polls' = [polls EXCEPT ![pollId] = addStudent(@, NewStudent(socket, studentName))]
    /\ studentToPoll' = With(studentToPoll, socket, pollId)
    /\ emitted' = << Emit("studentJoined", pollId, 0, NoResults) >>
    /\ cleared' = {}
    /\ reply' = Reply("joinPoll", socket, pollId, 0, "", "ok")
    /\ UNCHANGED <<teacherToPoll, timers, nextQuestion, submissions, connected, accepted>>

\* socket.on(SUBMIT_ANSWER): lookup or submitAnswer throws
SubmitAnswerFail(socket, questionId, answer) ==
    /\ socket \in connected
    /\ LET pollId == getPollByStudent(socket) IN
        \/ /\ pollId = ""
           /\ Rejected(Reply("submitAnswer", socket, "", 0, "", "You are not in any poll"))
        \/ /\ pollId # ""
           /\ submitAnswerError(polls[pollId], socket, questionId, answer) # ""
           /\ Rejected(Reply("submitAnswer", socket, pollId, 0, "",
                             submitAnswerError(polls[pollId], socket, questionId, answer)))

\* socket.on(SUBMIT_ANSWER): submitAnswer, ANSWER_RECEIVED, then the all-answered check
SubmitAnswerOk(socket, questionId, answer) ==
    /\ socket \in connected
    /\ LET pollId == getPollByStudent(socket) IN
        /\ pollId # ""
        /\ submitAnswerError(polls[pollId], socket, questionId, answer) = ""
        /\ submissions < MaxSubmissions
        /\ LET submitted == [polls EXCEPT ![pollId] = submitAnswer(@, socket, answer)]
               all == checkAllAnswered(submitted[pollId]) IN
            /\ polls' = IF all THEN endQuestionEarly(submitted, pollId) ELSE submitted
            /\ cleared' = IF all THEN endQuestionEarlyClears(submitted, pollId) ELSE {}
            /\ timers' = IF all THEN ClearAll(timers, endQuestionEarlyClears(submitted, pollId))
                         ELSE timers
            /\ emitted' = << Emit("answerReceived", pollId, questionId, NoResults) >>
                          \o (IF all THEN endQuestionEarlyEmits(submitted, pollId) ELSE <<>>)
        /\ reply' = Reply("submitAnswer", socket, pollId, questionId, answer, "ok")
        /\ accepted' = [accepted EXCEPT ![pollId][socket] = @ + 1]
    /\ submissions' = submissions + 1
    /\ UNCHANGED <<teacherToPoll, studentToPoll, nextQuestion, connected>>

\* socket.on(LEAVE_POLL): the socket is in no poll
LeavePollNone(socket) ==
    /\ socket \in connected
    /\ getPollByStudent(socket) = ""
    /\ Rejected(Reply("leavePoll", socket, "", 0, "", "ok"))

\* socket.on(LEAVE_POLL): removeStudentFromPoll, STUDENT_LEFT
\* (studentToPoll maps a socket only to a poll that holds it, so STUDENT_NOT_FOUND is never thrown here)
LeavePollOk(socket) ==
    /\ socket \in connected
    /\ LET pollId == getPollByStudent(socket) IN
        /\ pollId # ""
        /\ removeStudentFromPollError(polls, pollId, socket) = ""
        /\ polls' = [polls EXCEPT ![pollId] = removeStudent(@, socket)]
        /\ studentToPoll' = Without(studentToPoll, socket)
        /\ emitted' = << Emit("studentLeft", pollId, 0, NoResults) >>
        /\ reply' = Reply("leavePoll", socket, pollId, 0, "", "ok")
    /\ cleared' = {}
    /\ UNCHANGED <<teacherToPoll, timers, nextQuestion, submissions, connected, accepted>>

\* SocketController.handleDisconnect: the ERROR notice of the teacher branch
DisconnectTeacherEmits(socket) ==
    IF getPollByTeacher(socket) # ""
    THEN << Emit("error", getPollByTeacher(socket), 0, NoResults) >>
    ELSE <<>>

\* handleDisconnect whose teacher branch ends the open question
DisconnectEndsQuestion(socket) ==
    /\ socket \in connected
    /\ connected' = connected \ {socket}
    /\ LET teacherPoll == getPollByTeacher(socket)
           ended == IF teacherPoll # "" THEN endQuestionEarly(polls, teacherPoll) ELSE polls
           pollId == getPollByStudent(socket) IN
        /\ timers' = IF teacherPoll # ""
                      THEN ClearAll(timers, endQuestionEarlyClears(polls, teacherPoll))
                      ELSE timers
        /\ IF pollId # "" /\ removeStudentFromPollError(polls, pollId, socket) = ""
           THEN /\ polls' = [ended EXCEPT ![pollId] = removeStudent(@, socket)]
                /\ studentToPoll' = Without(studentToPoll, socket)
                /\ emitted' = DisconnectTeacherEmits(socket)
                              \o << Emit("studentLeft", pollId, 0, NoResults) >>
                /\ reply' = Reply("disconnect", socket, pollId, 0, "", "ok")
           ELSE /\ polls' = ended
                /\ UNCHANGED studentToPoll
                /\ emitted' = DisconnectTeacherEmits(socket)
                /\ reply' = Reply("disconnect", socket, "", 0, "", "ok")
    /\ cleared' = {}
    /\ UNCHANGED <<teacherToPoll, nextQuestion, submissions, accepted>>

\* SocketController.handleDisconnect; the socket id is never used again
Disconnect(socket) ==
    /\ socket \in connected
    /\ connected' = connected \ {socket}
    /\ LET pollId == getPollByStudent(socket) IN
        IF pollId # "" /\ removeStudentFromPollError(polls, pollId, socket) = ""
        THEN /\ polls' = [polls EXCEPT ![pollId] = removeStudent(@, socket)]
             /\ studentToPoll' = Without(studentToPoll, socket)
             /\ emitted' = DisconnectTeacherEmits(socket)
                           \o << Emit("studentLeft", pollId, 0, NoResults) >>
             /\ reply' = Reply("disconnect", socket, pollId, 0, "", "ok")
        ELSE /\ UNCHANGED <<polls, studentToPoll>>
             /\ emitted' = DisconnectTeacherEmits(socket)
             /\ reply' = Reply("disconnect", socket, "", 0, "", "ok")
    /\ cleared' = {}
    /\ UNCHANGED <<teacherToPoll, timers, nextQuestion, submissions, accepted>>

\* PollStore.deletePoll: the three maps it leaves
deletePollPolls(ps, pollId) == Without(ps, pollId)

deletePollTeachers(ps, teachers, pollId) ==
    IF pollId \in DOMAIN ps THEN Without(teachers, ps[pollId].teacherSocketId) ELSE teachers

\* deletePoll without the loop that deletes the students' keys
deletePollStudentsKept(ps, students, pollId) == students

deletePollStudents(ps, students, pollId) ==
    IF pollId \in DOMAIN ps
    THEN [k \in (DOMAIN students) \
                {ps[pollId].students[i].socketId : i \in 1..Len(ps[pollId].students)}
            |-> students[k]]
    ELSE students

\* DELETE /api/polls/:pollId : PollController.deletePoll
\* (recorded with the teacher and the open question id of the poll it deleted)
DeletePoll(pollId) ==
    /\ polls' = deletePollPolls(polls, pollId)
    /\ teacherToPoll' = deletePollTeachers(polls, teacherToPoll, pollId)
    /\ studentToPoll' = deletePollStudents(polls, studentToPoll, pollId)
    /\ timers' = ClearAll(timers, deletePollClears(polls, pollId))
    /\ cleared' = deletePollClears(polls, pollId)
    /\ emitted' = <<>>
    /\ reply' = Reply("deletePoll",
                      IF pollId \in DOMAIN polls THEN polls[pollId].teacherSocketId ELSE "",
                      pollId,
                      IF pollId \in DOMAIN polls THEN polls[pollId].currentQuestion.id ELSE 0,
                      "", "ok")
    /\ accepted' = [accepted EXCEPT ![pollId] = NoAccepted]
    /\ UNCHANGED <<nextQuestion, submissions, connected>>

\* the setTimeout callback of startTimer runs: onTimerExpired(pollId, questionId)
TimerFires(t) ==
    /\ t \in timers
    /\ timers' = timers \ {t}
    /\ polls' = onTimerExpired(polls, t.pollId, t.questionId)
    /\ emitted' = onTimerExpiredEmits(polls, t.pollId, t.questionId)
    /\ cleared' = {}
    /\ reply' = Reply("timer", "", t.pollId, t.questionId, "",
                      IF onTimerExpiredActs(polls, t.pollId, t.questionId) THEN "closed" ELSE "noop")
    /\ UNCHANGED <<teacherToPoll, studentToPoll, nextQuestion, submissions, connected, accepted>>

\* every handler, for the given senders of teacher events and of student events,
\* display names and poll ids
Handlers(teachers, students, names, pollIds) ==
    \/ \E socket \in teachers : CreatePollFail(socket)
    \/ \E socket \in teachers, pollId \in pollIds : CreatePollOk(socket, pollId)
    \/ \E socket \in teachers, options \in OptionInputs, timeout \in TimeoutInputs :
            StartQuestionFail(socket, options, timeout)
    \/ \E socket \in teachers, options \in OptionInputs, timeout \in TimeoutInputs :
            StartQuestionOk(socket, options, timeout)
    \/ \E socket \in teachers : EndQuestionFail(socket)
    \/ \E socket \in teachers : EndQuestionOk(socket)
    \/ \E socket \in teachers, studentSocketId \in students : RemoveStudentFail(socket, studentSocketId)
    \/ \E socket \in teachers, studentSocketId \in students : RemoveStudentOk(socket, studentSocketId)
    \/ \E socket \in students, pollId \in pollIds, studentName \in names :
            JoinPollFail(socket, pollId, studentName)
    \/ \E socket \in students, pollId \in pollIds, studentName \in names :
            JoinPollOk(socket, pollId, studentName)
    \/ \E socket \in students, questionId \in 1..MaxQuestions, answer \in AnswerInputs :
            SubmitAnswerFail(socket, questionId, answer)
    \/ \E socket \in students, questionId \in 1..MaxQuestions, answer \in AnswerInputs :
            SubmitAnswerOk(socket, questionId, answer)
    \/ \E socket \in students : LeavePollNone(socket)
    \/ \E socket \in students : LeavePollOk(socket)
    \/ \E socket \in teachers \cup students : Disconnect(socket)
    \/ \E pollId \in pollIds : DeletePoll(pollId)
    \/ \E t \in timers : TimerFires(t)

Next == Handlers(Teachers, Students, Names, PollIds)

Spec == Init /\ [][Next]_vars

\* ------------------------------------------------- forced close triggers
\* TimerService.onTimerExpired called with any (pollId, questionId), the way a
\* callback that outlived its clearTimeout, or a test forcing the race, calls it
ForceOnTimerExpired(pollId, questionId) ==
    /\ polls' = onTimerExpired(polls, pollId, questionId)
    /\ emitted' = onTimerExpiredEmits(polls, pollId, questionId)
    /\ cleared' = {}
    /\ reply' = Reply("onTimerExpired", "", pollId, questionId, "",
                      IF onTimerExpiredActs(polls, pollId, questionId) THEN "closed" ELSE "noop")
    /\ UNCHANGED <<teacherToPoll, studentToPoll, timers, nextQuestion, submissions,
                   connected, accepted>>

\* TimerService.endQuestionEarly called with any pollId
ForceEndQuestionEarly(pollId) ==
    /\ polls' = endQuestionEarly(polls, pollId)
    /\ timers' = ClearAll(timers, endQuestionEarlyClears(polls, pollId))
    /\ cleared' = endQuestionEarlyClears(polls, pollId)
    /\ emitted' = endQuestionEarlyEmits(polls, pollId)
    /\ reply' = Reply("endQuestionEarly", "", pollId,
                      IF endQuestionEarlyActs(polls, pollId)
                      THEN polls[pollId].currentQuestion.id ELSE 0,
                      "", IF endQuestionEarlyActs(polls, pollId) THEN "closed" ELSE "noop")
    /\ UNCHANGED <<teacherToPoll, studentToPoll, nextQuestion, submissions, connected, accepted>>

NextForced ==
    \/ Handlers(Teachers, ForcedStudents, Names, PollIds)
    \/ \E pollId \in PollIds, questionId \in 1..MaxQuestions : ForceOnTimerExpired(pollId, questionId)
    \/ \E pollId \in PollIds : ForceEndQuestionEarly(pollId)

SpecForced == Init /\ [][NextForced]_vars

\* ------------------------------------------------------ timers that fire
\* the handlers of one teacher and one student
NextLive == Handlers(Teachers, ForcedStudents, Names, PollIds)

\* setTimeout: the callback of a timer that stays pending is eventually run
TimersFire ==
    \A pollId \in PollIds, questionId \in 1..MaxQuestions :
        WF_vars(TimerFires([handle |-> questionId, pollId |-> pollId, questionId |-> questionId]))

SpecLive == Init /\ [][NextLive]_vars /\ TimersFire

\* -------------------------------------------------------------- admission
\* two teachers, two poll ids and display names that differ only in case
AdmissionTeachers == {"t1", "t2"}
AdmissionPollIds == {"p1", "p2"}

\* students that joined a poll earlier and send no further events: the i-th has
\* socket id b<i>; the first is called bob, the others n<i>
BulkName(i) == IF i = 1 THEN "bob" ELSE "n" \o ToString(i)

BulkStudents(k) == [i \in 1..k |-> NewStudent("b" \o ToString(i), BulkName(i))]

\* how many such students poll p1 holds at the start: none (the empty store),
\* or one fewer than the poll admits
BulkCounts == {0, MAX_STUDENTS_PER_POLL - 1}

\* the store after construction, or after t1 created p1 and k students joined it
InitAdmission ==
    /\ \E k \in BulkCounts :
        IF k = 0
        THEN /\ polls = EmptyMap
             /\ teacherToPoll = EmptyMap
             /\ studentToPoll = EmptyMap
        ELSE /\ polls = With(EmptyMap, "p1", [NewPoll("t1") EXCEPT !.students = BulkStudents(k)])
             /\ teacherToPoll = With(EmptyMap, "t1", "p1")
             /\ studentToPoll = [b \in {BulkStudents(k)[i].socketId : i \in 1..k} |-> "p1"]
    /\ timers = {}
    /\ nextQuestion = 0
    /\ submissions = 0
    /\ connected = AdmissionTeachers \cup Students
    /\ emitted = <<>>
    /\ cleared = {}
    /\ reply = Reply("init", "", "", 0, "", "ok")
    /\ accepted = [p \in AdmissionPollIds |-> NoAccepted]

\* the handlers that add or delete a poll, a student or a key of teacherToPoll
\* and studentToPoll (the question handlers add and delete none)
NextAdmission ==
    \/ \E socket \in AdmissionTeachers : CreatePollFail(socket)
    \/ \E socket \in AdmissionTeachers, pollId \in AdmissionPollIds : CreatePollOk(socket, pollId)
    \/ \E socket \in AdmissionTeachers, studentSocketId \in Students :
            RemoveStudentFail(socket, studentSocketId)
    \/ \E socket \in AdmissionTeachers, studentSocketId \in Students :
            RemoveStudentOk(socket, studentSocketId)
    \/ \E socket \in Students, pollId \in AdmissionPollIds, studentName \in CaseNames :
            JoinPollFail(socket, pollId, studentName)
    \/ \E socket \in Students, pollId \in AdmissionPollIds, studentName \in CaseNames :
            JoinPollOk(socket, pollId, studentName)
    \/ \E socket \in Students : LeavePollNone(socket)
    \/ \E socket \in Students : LeavePollOk(socket)
    \/ \E socket \in AdmissionTeachers \cup Students : Disconnect(socket)
    \/ \E pollId \in AdmissionPollIds : DeletePoll(pollId)

SpecAdmission == InitAdmission /\ [][NextAdmission]_vars

\* ----------------------------------------------------------- two sessions
\* the one display name in use where two polls have questions
SessionNames == {"ann"}

\* the store after construction, with two teachers and one student connected
InitSessions ==
    /\ polls = EmptyMap
    /\ teacherToPoll = EmptyMap
    /\ studentToPoll = EmptyMap
    /\ timers = {}
    /\ nextQuestion = 0
    /\ submissions = 0
    /\ connected = AdmissionTeachers \cup ForcedStudents
    /\ emitted = <<>>
    /\ cleared = {}
    /\ reply = Reply("init", "", "", 0, "", "ok")
    /\ accepted = [p \in AdmissionPollIds |-> NoAccepted]

\* every handler, for two teachers, two poll ids and one student
NextSessions == Handlers(AdmissionTeachers, ForcedStudents, SessionNames, AdmissionPollIds)

SpecSessions == InitSessions /\ [][NextSessions]_vars

\* ------------------------------------------------- direct service calls
\* PollService.submitAnswer(pollId, studentSocketId, questionId, answer) called
\* on its own, for any poll id and any socket id, the way a unit test or another
\* controller calls it: getPoll throws POLL_NOT_FOUND, then the five checks
CallSubmitAnswer(pollId, studentSocketId, questionId, answer) ==
    \/ /\ pollId \notin DOMAIN polls
       /\ Rejected(Reply("PollService.submitAnswer", studentSocketId, pollId, questionId, answer,
                         "POLL_NOT_FOUND"))
    \/ /\ pollId \in DOMAIN polls
       /\ submitAnswerError(polls[pollId], studentSocketId, questionId, answer) # ""
       /\ Rejected(Reply("PollService.submitAnswer", studentSocketId, pollId, questionId, answer,
                         submitAnswerError(polls[pollId], studentSocketId, questionId, answer)))
    \/ /\ pollId \in DOMAIN polls
       /\ submitAnswerError(polls[pollId], studentSocketId, questionId, answer) = ""
       /\ submissions < MaxSubmissions
       /\ polls' = [polls EXCEPT ![pollId] = submitAnswer(@, studentSocketId, answer)]
       /\ submissions' = submissions + 1
       /\ accepted' = [accepted EXCEPT ![pollId][studentSocketId] = @ + 1]
       /\ reply' = Reply("PollService.submitAnswer", studentSocketId, pollId, questionId, answer, "ok")
       /\ emitted' = <<>>
       /\ cleared' = {}
       /\ UNCHANGED <<teacherToPoll, studentToPoll, timers, nextQuestion, connected>>

\* the handlers of one teacher and one student, and submitAnswer called for
\* either student socket
NextService ==
    \/ Handlers(Teachers, ForcedStudents, Names, PollIds)
    \/ \E pollId \in PollIds, socket \in Students, questionId \in 1..MaxQuestions,
          answer \in AnswerInputs : CallSubmitAnswer(pollId, socket, questionId, answer)

SpecService == Init /\ [][NextService]_vars

\* ================================================================ claims
\* the history, the open question id and the open question's options of a poll id
HistoryOf(ps, pollId) == IF pollId \in DOMAIN ps THEN ps[pollId].questionHistory ELSE <<>>

QuestionIdOf(ps, pollId) == IF pollId \in DOMAIN ps THEN ps[pollId].currentQuestion.id ELSE 0

ClosedIds(ps, pollId) ==
    {HistoryOf(ps, pollId)[i].questionId : i \in 1..Len(HistoryOf(ps, pollId))}

\* the sum of the vote counters of a sequence of options
RECURSIVE SumVotes(_)
SumVotes(options) ==
    IF options = <<>> THEN 0 ELSE Head(options).votes + SumVotes(Tail(options))

\* the operations that are close triggers
TriggerOps == {"timer", "onTimerExpired", "endQuestionEarly", "endQuestion", "submitAnswer"}

\* the students of a poll with hasAnswered = true
AnsweredCount(poll) == Len(SelectSeq(poll.students, LAMBDA st : st.hasAnswered))

\* C1: every question is closed exactly once.  In every step, for a poll that
\* exists before and after it, the history is unchanged or grows by exactly one
\* entry; it grows exactly when the question that was open is no longer open,
\* and the new entry carries that question's id; no question id occurs twice
\* in a history; and a trigger for a question id that is already in the
\* history leaves the history as it is.
C1_ExactlyOneClose ==
    [][\A p \in PollIds :
        (p \in DOMAIN polls /\ p \in DOMAIN polls') =>
            LET h == polls[p].questionHistory
                hn == polls'[p].questionHistory
                q == polls[p].currentQuestion.id
                closed == q # 0 /\ polls'[p].currentQuestion.id # q
            IN  /\ closed => /\ Len(hn) = Len(h) + 1
                              /\ SubSeq(hn, 1, Len(h)) = h
                              /\ hn[Len(hn)].questionId = q
                /\ ~closed => hn = h
                /\ \A i, j \in 1..Len(hn) : hn[i].questionId = hn[j].questionId => i = j
                /\ (reply'.op \in TriggerOps /\ reply'.pollId = p
                        /\ reply'.questionId \in ClosedIds(polls, p)) => hn = h
      ]_vars

\* C1 witness: a timer or a forced trigger for a question already in the history ran and did nothing
C1_Witness ==
    /\ reply.op \in {"timer", "onTimerExpired"}
    /\ reply.result = "noop"
    /\ reply.questionId \in ClosedIds(polls, reply.pollId)

\* C2: a poll has a current question if and only if its status is 'active'
\* (currentQuestion is one field, so there is never more than one)
C2_QuestionIffActive ==
    \A p \in DOMAIN polls :
        /\ polls[p].status \in {"waiting", "active"}
        /\ (polls[p].currentQuestion # NoQuestion) <=> (polls[p].status = "active")

\* C2 witness: a poll is active again with a second question after a first one was closed
C2_Witness ==
    \E p \in DOMAIN polls :
        /\ polls[p].status = "active"
        /\ polls[p].currentQuestion.id # 0
        /\ Len(polls[p].questionHistory) > 0

\* C3 as claimed: the vote counters of the open question sum to the number of
\* students currently in the poll with hasAnswered = true
C3_VotesEqualAnswered ==
    \A p \in DOMAIN polls :
        polls[p].currentQuestion # NoQuestion =>
            SumVotes(polls[p].currentQuestion.options) = AnsweredCount(polls[p])

\* C4 as claimed: a socket has at most one accepted submission for the open question
C4_AtMostOneSubmission ==
    \A p \in PollIds : \A k \in Sockets : accepted[p][k] <= 1

\* the step is the SUBMIT_ANSWER handler run for (socket, questionId, answer)
SubmitStep(socket, questionId, answer) ==
    /\ reply'.op = "submitAnswer"
    /\ reply'.socket = socket
    /\ SubmitAnswerFail(socket, questionId, answer) \/ SubmitAnswerOk(socket, questionId, answer)

\* the last handler was a successful SUBMIT_ANSWER of (socket, questionId, answer)
JustSubmitted(socket, questionId, answer) ==
    /\ reply.op = "submitAnswer"
    /\ reply.result = "ok"
    /\ reply.socket = socket
    /\ reply.questionId = questionId
    /\ reply.answer = answer

\* C5 as claimed: a submission repeated right after it succeeded is answered
\* ALREADY_ANSWERED and changes nothing, also when the first one was the last
\* outstanding answer
C5_RepeatIsAlreadyAnswered ==
    [][(reply.op = "submitAnswer" /\ reply'.op = "submitAnswer") =>
        \A k \in Students, q \in 1..MaxQuestions, a \in AnswerInputs :
            (JustSubmitted(k, q, a) /\ SubmitStep(k, q, a)) =>
                /\ reply'.result = "ALREADY_ANSWERED"
                /\ polls' = polls
      ]_vars

\* C5 amended: a submission repeated right after it succeeded changes nothing;
\* it is answered ALREADY_ANSWERED when the first one left the question open,
\* and POLL_NOT_ACTIVE when the first one was the last outstanding answer and
\* closed the question
C5_RepeatIsRejected ==
    [][(reply.op = "submitAnswer" /\ reply'.op = "submitAnswer") =>
        \A k \in Students, q \in 1..MaxQuestions, a \in AnswerInputs :
            (JustSubmitted(k, q, a) /\ SubmitStep(k, q, a)) =>
                /\ polls' = polls
                /\ timers' = timers
                /\ reply'.result = IF QuestionIdOf(polls, reply.pollId) = q
                                   THEN "ALREADY_ANSWERED" ELSE "POLL_NOT_ACTIVE"
                /\ QuestionIdOf(polls, reply.pollId) \in {q, 0}
      ]_vars

\* C5 witness: a repeated submission was answered ALREADY_ANSWERED with the first vote in place
C5_Witness ==
    /\ reply.op = "submitAnswer"
    /\ reply.result = "ALREADY_ANSWERED"
    /\ \E p \in DOMAIN polls :
        /\ MapHas(polls[p].students, reply.socket)
        /\ MapGet(polls[p].students, reply.socket).hasAnswered
        /\ SumVotes(polls[p].currentQuestion.options) = 1

\* how many students of the poll, once socket has chosen answer, have chosen optionId
ChosenBy(poll, socket, answer, optionId) ==
    Cardinality({i \in 1..Len(poll.students) :
        IF poll.students[i].socketId = socket
        THEN answer = optionId
        ELSE poll.students[i].hasAnswered /\ poll.students[i].answer = optionId})

\* C6 as claimed: a successful submission after which every student of the
\* poll has answered closes the question in that step (the timer is cleared,
\* not fired), and the snapshot appended to the history counts, for every
\* option, the students that chose it, with totalResponses their number
C6_AllAnsweredClosesWithExactCounts ==
    [][(reply'.op = "submitAnswer" /\ reply'.result = "ok") =>
       \A k \in Students, q \in 1..MaxQuestions, a \in AnswerInputs :
        LET p == getPollByStudent(k) IN
        (/\ reply'.op = "submitAnswer"
         /\ reply'.socket = k
         /\ SubmitAnswerOk(k, q, a)
         /\ \A i \in 1..Len(polls[p].students) :
                polls[p].students[i].socketId # k => polls[p].students[i].hasAnswered) =>
            LET hn == polls'[p].questionHistory
                snapshot == hn[Len(hn)] IN
            /\ polls'[p].currentQuestion = NoQuestion
            /\ Len(hn) = Len(polls[p].questionHistory) + 1
            /\ snapshot.questionId = q
            /\ cleared' = {polls[p].currentQuestion.timerHandle}
            /\ \A t \in timers' : t.questionId # q
            /\ snapshot.totalResponses = Len(polls[p].students)
            /\ \A i \in 1..Len(snapshot.options) :
                    snapshot.options[i].votes =
                        ChosenBy(polls[p], k, a, snapshot.options[i].id)
      ]_vars

\* the trigger (pollId, questionId) does not name the open question of an existing poll
Stale(pollId, questionId) ==
    \/ pollId \notin DOMAIN polls
    \/ polls[pollId].currentQuestion = NoQuestion
    \/ polls[pollId].currentQuestion.id # questionId

\* C7: a timer callback, a forced onTimerExpired or a forced endQuestionEarly
\* whose (pollId, questionId) does not name the open question of an existing
\* poll changes no poll and no mapping and broadcasts nothing
C7_StaleTriggerIsNoOp ==
    [][reply'.op \in {"timer", "onTimerExpired", "endQuestionEarly"} =>
       \A p \in PollIds, q \in 0..MaxQuestions :
        (/\ reply'.op \in {"timer", "onTimerExpired", "endQuestionEarly"}
         /\ reply'.pollId = p
         /\ reply'.questionId = q
         /\ Stale(p, q)) =>
            /\ polls' = polls
            /\ teacherToPoll' = teacherToPoll
            /\ studentToPoll' = studentToPoll
            /\ emitted' = <<>>
      ]_vars

\* C7 witness: the timer of an earlier question fired while a later question was open, and it is still open
C7_Witness ==
    /\ reply.op = "timer"
    /\ reply.pollId \in DOMAIN polls
    /\ polls[reply.pollId].currentQuestion.id > reply.questionId
    /\ reply.questionId \in ClosedIds(polls, reply.pollId)

\* C8: a deletePoll of a poll with an open question clears that question's
\* timer in the same step, and at all times every pending timer belongs to the
\* open question of an existing poll and every close broadcast goes to an
\* existing poll: nothing is left to fire or to be closed for a deleted poll
C8_DeleteCancelsTimer ==
    /\ [][\A p \in PollIds :
            (reply'.op = "deletePoll" /\ reply'.pollId = p /\ QuestionIdOf(polls, p) # 0) =>
                /\ polls[p].currentQuestion.timerHandle \in cleared'
                /\ \A t \in timers' : t.pollId # p
                /\ p \notin DOMAIN polls'
                /\ emitted' = <<>>
         ]_vars
    /\ [](\A t \in timers :
            /\ t.pollId \in DOMAIN polls
            /\ polls[t.pollId].currentQuestion.id = t.questionId)
    /\ [](\A i \in 1..Len(emitted) :
            emitted[i].event \in {"timeUp", "showResults"} => emitted[i].room \in DOMAIN polls)

\* C8 witness: a poll was deleted while its question was open and the timer was cleared
C8_Witness ==
    /\ reply.op = "deletePoll"
    /\ reply.questionId # 0
    /\ cleared = {reply.questionId}
    /\ reply.pollId \notin DOMAIN polls

\* the five reasons for which a submission must fail, read off the store
MustFail(socket, questionId, answer) ==
    LET p == getPollByStudent(socket) IN
    \/ p = ""
    \/ polls[p].currentQuestion = NoQuestion
    \/ polls[p].currentQuestion.id # questionId
    \/ ~MapHas(polls[p].students, socket)
    \/ MapGet(polls[p].students, socket).hasAnswered
    \/ answer \notin {polls[p].currentQuestion.options[i].id :
                        i \in 1..Len(polls[p].currentQuestion.options)}

\* the vote counters of a question: live while it is open, in the last snapshot once closed
VotesAfter(poll, optionId) ==
    LET options == IF poll.currentQuestion # NoQuestion
                   THEN poll.currentQuestion.options
                   ELSE poll.questionHistory[Len(poll.questionHistory)].options
    IN  options[CHOOSE i \in 1..Len(options) : options[i].id = optionId].votes

\* C9: a submission that has one of the five reasons to fail is rejected and
\* changes no poll, mapping or timer, clears no timer and broadcasts nothing;
\* and a valid submission made right after an INVALID_ANSWER rejection of the
\* same socket is accepted and adds exactly one vote to its option
C9_FailedSubmissionMutatesNothing ==
    [][reply'.op = "submitAnswer" =>
       \A k \in Students, q \in 1..MaxQuestions, a \in AnswerInputs :
        /\ (SubmitStep(k, q, a) /\ MustFail(k, q, a)) =>
                /\ reply'.result # "ok"
                /\ polls' = polls
                /\ teacherToPoll' = teacherToPoll
                /\ studentToPoll' = studentToPoll
                /\ timers' = timers
                /\ cleared' = {}
                /\ emitted' = <<>>
        /\ (/\ reply.op = "submitAnswer" /\ reply.result = "INVALID_ANSWER" /\ reply.socket = k
            /\ SubmitStep(k, q, a) /\ ~MustFail(k, q, a)) =>
                /\ reply'.result = "ok"
                /\ VotesAfter(polls'[reply.pollId], a) = VotesAfter(polls[reply.pollId], a) + 1
                /\ SumVotes(IF polls'[reply.pollId].currentQuestion # NoQuestion
                            THEN polls'[reply.pollId].currentQuestion.options
                            ELSE polls'[reply.pollId].questionHistory[
                                    Len(polls'[reply.pollId].questionHistory)].options)
                    = SumVotes(polls[reply.pollId].currentQuestion.options) + 1
      ]_vars

\* C9 witness: a submission was rejected with INVALID_ANSWER and its sender, still unanswered,
\* is in a poll whose question is still open
C9_Witness ==
    /\ reply.op = "submitAnswer"
    /\ reply.result = "INVALID_ANSWER"
    /\ reply.pollId \in DOMAIN polls
    /\ polls[reply.pollId].currentQuestion # NoQuestion
    /\ ~MapGet(polls[reply.pollId].students, reply.socket).hasAnswered

\* C10: a valid START_QUESTION of a teacher whose poll has an open question is
\* answered POLL_ALREADY_ACTIVE and changes no poll, arms no timer and uses no
\* question id
C10_SecondOpenIsRejected ==
    [][reply'.op = "startQuestion" =>
       \A k \in Teachers, o \in OptionInputs, t \in TimeoutInputs :
        (/\ reply'.op = "startQuestion"
         /\ reply'.socket = k
         /\ ValidStartQuestion(o, t)
         /\ StartQuestionFail(k, o, t) \/ StartQuestionOk(k, o, t)
         /\ getPollByTeacher(k) # ""
         /\ QuestionIdOf(polls, getPollByTeacher(k)) # 0) =>
            /\ reply'.result = "POLL_ALREADY_ACTIVE"
            /\ polls' = polls
            /\ timers' = timers
            /\ nextQuestion' = nextQuestion
            /\ cleared' = {}
            /\ emitted' = <<>>
      ]_vars

\* C10 witness: a second START_QUESTION was rejected while the first question, with a vote, stays open
C10_Witness ==
    /\ reply.op = "startQuestion"
    /\ reply.result = "POLL_ALREADY_ACTIVE"
    /\ polls[reply.pollId].status = "active"
    /\ SumVotes(polls[reply.pollId].currentQuestion.options) > 0
    /\ \E t \in timers : t.questionId = polls[reply.pollId].currentQuestion.id

\* the five conditions of a submission, read off the poll
NoActiveQuestion(poll) == poll.currentQuestion = NoQuestion

QuestionMismatch(poll, questionId) == poll.currentQuestion.id # questionId

ParticipantNotFound(poll, socket) ==
    \A i \in 1..Len(poll.students) : poll.students[i].socketId # socket

AlreadyAnswered(poll, socket) ==
    \E i \in 1..Len(poll.students) :
        poll.students[i].socketId = socket /\ poll.students[i].hasAnswered

InvalidOption(poll, answer) ==
    \A i \in 1..Len(poll.currentQuestion.options) : poll.currentQuestion.options[i].id # answer

\* C11: submitAnswer on an existing poll reports the first of the five
\* conditions that holds, in the order no active question, question id
\* mismatch, participant not found, already answered, invalid option, whatever
\* later conditions hold as well; it succeeds exactly when none holds; the same
\* for the SUBMIT_ANSWER handler once it has found the sender's poll
C11_FirstFailingCheckIsReported ==
    [][reply'.op \in {"PollService.submitAnswer", "submitAnswer"} =>
       \A p \in PollIds, k \in Students, q \in 1..MaxQuestions, a \in AnswerInputs :
        (/\ p \in DOMAIN polls
         /\ reply'.socket = k
         /\ \/ reply'.op = "PollService.submitAnswer" /\ CallSubmitAnswer(p, k, q, a)
            \/ /\ reply'.op = "submitAnswer"
               /\ getPollByStudent(k) = p
               /\ SubmitAnswerFail(k, q, a) \/ SubmitAnswerOk(k, q, a)) =>
            LET poll == polls[p]
                c1 == NoActiveQuestion(poll)
                c2 == QuestionMismatch(poll, q)
                c3 == ParticipantNotFound(poll, k)
                c4 == AlreadyAnswered(poll, k)
                c5 == InvalidOption(poll, a)
            IN  /\ c1 => reply'.result = "POLL_NOT_ACTIVE"
                /\ (~c1 /\ c2) => reply'.result = "Question has changed"
                /\ (~c1 /\ ~c2 /\ c3) => reply'.result = "STUDENT_NOT_FOUND"
                /\ (~c1 /\ ~c2 /\ ~c3 /\ c4) => reply'.result = "ALREADY_ANSWERED"
                /\ (~c1 /\ ~c2 /\ ~c3 /\ ~c4 /\ c5) => reply'.result = "INVALID_ANSWER"
                /\ (reply'.result = "ok") <=> ~(c1 \/ c2 \/ c3 \/ c4 \/ c5)
      ]_vars

\* C11 witness: a submission of a socket that is not in the poll, with an option
\* id the open question does not have, was answered STUDENT_NOT_FOUND
C11_Witness ==
    /\ reply.op = "PollService.submitAnswer"
    /\ reply.result = "STUDENT_NOT_FOUND"
    /\ reply.pollId \in DOMAIN polls
    /\ polls[reply.pollId].currentQuestion.id = reply.questionId
    /\ InvalidOption(polls[reply.pollId], reply.answer)

\* the poll has an open question and no students
OpenWithoutStudents(ps, pollId) ==
    /\ pollId \in DOMAIN ps
    /\ ps[pollId].currentQuestion # NoQuestion
    /\ Len(ps[pollId].students) = 0

\* every option of the sequence has 0 votes
ZeroVotes(options) == \A i \in 1..Len(options) : options[i].votes = 0

\* C12: for a poll with an open question and no students the all-answered
\* check is false; such a question is closed only by its timer or by the
\* teacher's END_QUESTION, never by a submission; its timer, when it fires,
\* closes it; and when no submission was accepted for it the snapshot appended
\* and the results broadcast have 0 votes for every option, totalResponses 0
\* and no participants
C12_ZeroParticipantsCloseOnDeadline ==
    /\ [](\A p \in PollIds : OpenWithoutStudents(polls, p) => ~checkAllAnswered(polls[p]))
    /\ [][\A p \in PollIds :
            (OpenWithoutStudents(polls, p) /\ p \in DOMAIN polls') =>
                LET q == polls[p].currentQuestion.id
                    hn == polls'[p].questionHistory
                IN  /\ (reply'.op = "timer" /\ reply'.pollId = p /\ reply'.questionId = q) =>
                            polls'[p].currentQuestion = NoQuestion
                    /\ polls'[p].currentQuestion.id # q =>
                        /\ reply'.op \in {"timer", "endQuestion"}
                        /\ polls'[p].status = "waiting"
                        /\ Len(hn) = Len(polls[p].questionHistory) + 1
                        /\ hn[Len(hn)].questionId = q
                        /\ hn[Len(hn)].totalResponses = 0
                        /\ hn[Len(hn)].participants = <<>>
                        /\ (\A k \in Sockets : accepted[p][k] = 0) =>
                            /\ Len(hn[Len(hn)].options) = Len(polls[p].currentQuestion.options)
                            /\ ZeroVotes(hn[Len(hn)].options)
                            /\ \E i \in 1..Len(emitted') :
                                /\ emitted'[i].event = "showResults"
                                /\ emitted'[i].results.totalResponses = 0
                                /\ emitted'[i].results.participants = <<>>
                                /\ Len(emitted'[i].results.options) = Len(hn[Len(hn)].options)
                                /\ ZeroVotes(emitted'[i].results.options)
         ]_vars

\* C12 witness: the timer closed a question of a poll without students, and the
\* snapshot has two options with 0 votes and totalResponses 0
C12_Witness ==
    /\ reply.op = "timer"
    /\ reply.result = "closed"
    /\ reply.pollId \in DOMAIN polls
    /\ Len(polls[reply.pollId].students) = 0
    /\ LET h == polls[reply.pollId].questionHistory IN
        /\ Len(h) > 0
        /\ h[Len(h)].questionId = reply.questionId
        /\ Len(h[Len(h)].options) = 2
        /\ ZeroVotes(h[Len(h)].options)
        /\ h[Len(h)].totalResponses = 0

\* how many submissions the poll's open question has accepted, over the sockets in S
RECURSIVE AcceptedBy(_, _)
AcceptedBy(counts, S) ==
    IF S = {} THEN 0
    ELSE LET k == CHOOSE x \in S : TRUE IN counts[k] + AcceptedBy(counts, S \ {k})

\* C13 as claimed: in the snapshot appended when a question closes, both the
\* sum of the option vote counts and totalResponses equal the number of
\* submissions accepted for that question while it was open
C13_SnapshotCountsAcceptedSubmissions ==
    [][\A p \in PollIds :
        (/\ p \in DOMAIN polls
         /\ p \in DOMAIN polls'
         /\ Len(polls'[p].questionHistory) = Len(polls[p].questionHistory) + 1) =>
            LET hn == polls'[p].questionHistory
                snapshot == hn[Len(hn)]
            IN  /\ SumVotes(snapshot.options) = AcceptedBy(accepted'[p], Sockets)
                /\ snapshot.totalResponses = AcceptedBy(accepted'[p], Sockets)
      ]_vars

\* C14: under SpecLive, where a pending timer eventually fires, a question
\* that is open in a poll is eventually in that poll's history with the poll
\* back to status 'waiting', unless the poll is deleted
C14_OpenQuestionEventuallyCloses ==
    \A p \in PollIds, q \in 1..MaxQuestions :
        (QuestionIdOf(polls, p) = q) ~>
            \/ p \notin DOMAIN polls
            \/ /\ q \in ClosedIds(polls, p)
               /\ polls[p].currentQuestion = NoQuestion
               /\ polls[p].status = "waiting"

\* C14 witness: the timer closed a question after the teacher had disconnected
\* and while a student who never answered was in the poll
C14_Witness ==
    /\ reply.op = "timer"
    /\ reply.result = "closed"
    /\ reply.pollId \in DOMAIN polls
    /\ polls[reply.pollId].teacherSocketId \notin connected
    /\ reply.questionId \in ClosedIds(polls, reply.pollId)
    /\ polls[reply.pollId].status = "waiting"
    /\ Len(polls[reply.pollId].students) > 0

\* the existing polls whose teacher is the socket
PollsOf(ps, teacherSocketId) == {p \in DOMAIN ps : ps[p].teacherSocketId = teacherSocketId}

\* C15: a socket is the teacher of at most one existing poll; a CREATE_POLL of
\* a socket that is the teacher of an existing poll is rejected and changes no
\* poll and no mapping; a CREATE_POLL of a socket that is the teacher of no
\* existing poll (none yet, or its poll was deleted) creates one
C15_OneSessionPerModerator ==
    /\ [](\A t \in AdmissionTeachers : Cardinality(PollsOf(polls, t)) <= 1)
    /\ [][reply'.op = "createPoll" =>
            \A t \in AdmissionTeachers :
                reply'.socket = t =>
                    IF PollsOf(polls, t) # {}
                    THEN /\ reply'.result = "You already have an active poll"
                         /\ polls' = polls
                         /\ teacherToPoll' = teacherToPoll
                         /\ studentToPoll' = studentToPoll
                    ELSE /\ reply'.result = "ok"
                         /\ PollsOf(polls', t) = {reply'.pollId}
                         /\ reply'.pollId \notin DOMAIN polls
                         /\ DOMAIN polls' = DOMAIN polls \cup {reply'.pollId}
         ]_vars

\* C15 witness: a CREATE_POLL was rejected although a poll id is free, and its
\* sender is the teacher of exactly one poll
C15_Witness ==
    /\ reply.op = "createPoll"
    /\ reply.result = "You already have an active poll"
    /\ Cardinality(PollsOf(polls, reply.socket)) = 1
    /\ DOMAIN polls # AdmissionPollIds

\* the step is the JOIN_POLL handler run for (socket, pollId, studentName)
JoinStep(socket, pollId, studentName) ==
    /\ reply'.op = "joinPoll"
    /\ reply'.socket = socket
    /\ JoinPollFail(socket, pollId, studentName) \/ JoinPollOk(socket, pollId, studentName)

\* C16: a poll never holds more than MAX_STUDENTS_PER_POLL students, and a
\* JOIN_POLL for a poll that holds that many is answered MAX_STUDENTS_REACHED
\* and changes no poll and no mapping
C16_AtMostMaxStudents ==
    /\ [](\A p \in DOMAIN polls : Len(polls[p].students) <= MAX_STUDENTS_PER_POLL)
    /\ [][reply'.op = "joinPoll" =>
            \A k \in Students, p \in AdmissionPollIds, n \in CaseNames :
                (/\ JoinStep(k, p, n)
                 /\ p \in DOMAIN polls
                 /\ Len(polls[p].students) >= MAX_STUDENTS_PER_POLL) =>
                    /\ reply'.result = "MAX_STUDENTS_REACHED"
                    /\ polls' = polls
                    /\ studentToPoll' = studentToPoll
                    /\ teacherToPoll' = teacherToPoll
                    /\ emitted' = <<>>
         ]_vars

\* C16 witness: a JOIN_POLL was answered MAX_STUDENTS_REACHED by a poll that
\* holds MAX_STUDENTS_PER_POLL students, the last of them admitted by a JOIN_POLL
C16_Witness ==
    /\ reply.op = "joinPoll"
    /\ reply.result = "MAX_STUDENTS_REACHED"
    /\ \E p \in DOMAIN polls :
        /\ Len(polls[p].students) = MAX_STUDENTS_PER_POLL
        /\ polls[p].students[MAX_STUDENTS_PER_POLL].socketId \in Students
        /\ ~MapHas(polls[p].students, reply.socket)

\* a student of the poll has the name, ignoring case
NameTaken(poll, studentName) ==
    \E i \in 1..Len(poll.students) :
        toLowerCase(poll.students[i].name) = toLowerCase(studentName)

\* no two students of a poll have names that are equal ignoring case
NamesUnique ==
    \A p \in DOMAIN polls : \A i, j \in 1..Len(polls[p].students) :
        toLowerCase(polls[p].students[i].name) = toLowerCase(polls[p].students[j].name) => i = j

\* C17 as claimed: the names of a poll are unique ignoring case, and every
\* JOIN_POLL with a name that a student of the poll has, ignoring case, is
\* answered DUPLICATE_NAME and changes nothing
C17_DuplicateNameIsDuplicateName ==
    /\ []NamesUnique
    /\ [][reply'.op = "joinPoll" =>
            \A k \in Students, p \in AdmissionPollIds, n \in CaseNames :
                (JoinStep(k, p, n) /\ p \in DOMAIN polls /\ NameTaken(polls[p], n)) =>
                    /\ reply'.result = "DUPLICATE_NAME"
                    /\ polls' = polls
                    /\ studentToPoll' = studentToPoll
         ]_vars

\* C17 amended: the names of a poll are unique ignoring case; a JOIN_POLL with
\* a name that a student of the poll has, ignoring case, changes nothing and is
\* answered DUPLICATE_NAME, or MAX_STUDENTS_REACHED when the poll is full; and a
\* JOIN_POLL for a poll that is not full with a name no student of that poll
\* has is accepted, whatever names the students of the other polls have
C17_DuplicateNameIsRejected ==
    /\ []NamesUnique
    /\ [][reply'.op = "joinPoll" =>
            \A k \in Students, p \in AdmissionPollIds, n \in CaseNames :
                (JoinStep(k, p, n) /\ p \in DOMAIN polls) =>
                    IF NameTaken(polls[p], n)
                    THEN /\ reply'.result =
                                IF Len(polls[p].students) >= MAX_STUDENTS_PER_POLL
                                THEN "MAX_STUDENTS_REACHED" ELSE "DUPLICATE_NAME"
                         /\ polls' = polls
                         /\ studentToPoll' = studentToPoll
                         /\ teacherToPoll' = teacherToPoll
                         /\ emitted' = <<>>
                    ELSE Len(polls[p].students) < MAX_STUDENTS_PER_POLL =>
                         /\ reply'.result = "ok"
                         /\ MapHas(polls'[p].students, k)
                         /\ MapGet(polls'[p].students, k).name = n
         ]_vars

\* C17 witness: a JOIN_POLL was answered DUPLICATE_NAME, and its sender has
\* in one poll the name that another student has, in another case, in the
\* other poll
C17_Witness ==
    /\ reply.op = "joinPoll"
    /\ reply.result = "DUPLICATE_NAME"
    /\ \E p1, p2 \in DOMAIN polls :
        /\ p1 # p2
        /\ MapHas(polls[p1].students, reply.socket)
        /\ ~MapHas(polls[p2].students, reply.socket)
        /\ MapGet(polls[p1].students, reply.socket).name = "ann"
        /\ \E i \in 1..Len(polls[p2].students) : polls[p2].students[i].name = "Ann"

\* C18 as claimed: a socket is among the students of at most one poll
C18_StudentInAtMostOnePoll ==
    \A k \in Students :
        Cardinality({p \in DOMAIN polls : MapHas(polls[p].students, k)}) <= 1

\* C19: in every step, for a poll that exists before and after it, the old
\* history is a prefix of the new one (no entry is removed or changed), at
\* most one entry is added, and one is added only when the question that was
\* open is closed, with that question's id
C19_HistoryIsAppendOnly ==
    [][\A p \in PollIds :
        (p \in DOMAIN polls /\ p \in DOMAIN polls') =>
            LET h == polls[p].questionHistory
                hn == polls'[p].questionHistory
            IN  /\ Len(hn) >= Len(h)
                /\ Len(hn) <= Len(h) + 1
                /\ SubSeq(hn, 1, Len(h)) = h
                /\ Len(hn) = Len(h) + 1 =>
                    /\ polls[p].currentQuestion # NoQuestion
                    /\ polls'[p].currentQuestion = NoQuestion
                    /\ hn[Len(hn)].questionId = polls[p].currentQuestion.id
      ]_vars

\* C19 witness: a vote was accepted for the second question of a poll whose
\* history holds the snapshot of the first question, with its one vote
C19_Witness ==
    \E p \in DOMAIN polls :
        /\ Len(polls[p].questionHistory) = 1
        /\ polls[p].questionHistory[1].questionId = 1
        /\ SumVotes(polls[p].questionHistory[1].options) = 1
        /\ polls[p].questionHistory[1].totalResponses = 1
        /\ polls[p].currentQuestion.id = 2
        /\ SumVotes(polls[p].currentQuestion.options) = 1

\* C20: a START_QUESTION that succeeds was sent for a poll without an open
\* question and leaves the poll 'active' with a new question under a fresh id,
\* every option of it with 0 votes, a pending timer for that poll and question
\* id whose handle the question holds, and every student of the poll, the same
\* students as before, with hasAnswered = false and no answer
C20_OpenResetsTheSession ==
    [][(reply'.op = "startQuestion" /\ reply'.result = "ok") =>
        LET p == reply'.pollId
            q == reply'.questionId
        IN  /\ p \in DOMAIN polls
            /\ polls[p].currentQuestion = NoQuestion
            /\ polls'[p].status = "active"
            /\ polls'[p].currentQuestion.id = q
            /\ q \notin ClosedIds(polls, p)
            /\ Len(polls'[p].currentQuestion.options) >= 2
            /\ ZeroVotes(polls'[p].currentQuestion.options)
            /\ \E t \in timers' :
                /\ t.pollId = p
                /\ t.questionId = q
                /\ t.handle = polls'[p].currentQuestion.timerHandle
                /\ t \notin timers
            /\ Len(polls'[p].students) = Len(polls[p].students)
            /\ \A i \in 1..Len(polls'[p].students) :
                /\ polls'[p].students[i].socketId = polls[p].students[i].socketId
                /\ polls'[p].students[i].name = polls[p].students[i].name
                /\ polls'[p].students[i].hasAnswered = FALSE
                /\ polls'[p].students[i].answer = Nullish
            /\ polls'[p].questionHistory = polls[p].questionHistory
      ]_vars

\* C20 witness: a second question was opened in a poll that holds a student
\* who answered the first one
C20_Witness ==
    /\ reply.op = "startQuestion"
    /\ reply.result = "ok"
    /\ reply.questionId = 2
    /\ LET poll == polls[reply.pollId] IN
        /\ Len(poll.questionHistory) = 1
        /\ poll.questionHistory[1].totalResponses = 1
        /\ \E i \in 1..Len(poll.students) :
            /\ poll.students[i].name = poll.questionHistory[1].participants[1]
            /\ ~poll.students[i].hasAnswered
        /\ \E t \in timers : t.questionId = 2

\* C21: an END_QUESTION of the teacher of a poll with an open question,
\* whoever has answered, clears that question's timer and closes the question
\* in the same step: one snapshot with its id is appended, currentQuestion is
\* null and the status 'waiting'; an END_QUESTION of a teacher whose poll has
\* no open question, or who has no poll, is rejected and changes nothing
C21_EndQuestionClosesNow ==
    [][reply'.op = "endQuestion" =>
       \A k \in Teachers :
        reply'.socket = k =>
            LET p == getPollByTeacher(k) IN
            IF PollsOf(polls, k) # {} /\ p # "" /\ polls[p].currentQuestion # NoQuestion
            THEN LET q == polls[p].currentQuestion.id
                     hn == polls'[p].questionHistory
                 IN  /\ reply'.result = "ok"
                     /\ cleared' = {polls[p].currentQuestion.timerHandle}
                     /\ \A t \in timers' : t.pollId # p
                     /\ \E t \in timers : t.pollId = p /\ t.questionId = q
                     /\ Len(hn) = Len(polls[p].questionHistory) + 1
                     /\ SubSeq(hn, 1, Len(hn) - 1) = polls[p].questionHistory
                     /\ hn[Len(hn)].questionId = q
                     /\ polls'[p].currentQuestion = NoQuestion
                     /\ polls'[p].status = "waiting"
                     /\ \E i \in 1..Len(emitted') : emitted'[i].event = "showResults"
            ELSE /\ reply'.result \in {"You do not have an active poll", "No active question to end"}
                 /\ (reply'.result = "You do not have an active poll") <=> (PollsOf(polls, k) = {})
                 /\ polls' = polls
                 /\ timers' = timers
                 /\ teacherToPoll' = teacherToPoll
                 /\ studentToPoll' = studentToPoll
                 /\ cleared' = {}
                 /\ emitted' = <<>>
      ]_vars

\* C21 witness: END_QUESTION closed a question that no student of the poll,
\* which has students, had answered
C21_Witness ==
    /\ reply.op = "endQuestion"
    /\ reply.result = "ok"
    /\ cleared # {}
    /\ LET poll == polls[reply.pollId] IN
        /\ Len(poll.students) > 0
        /\ poll.questionHistory[Len(poll.questionHistory)].questionId = reply.questionId
        /\ poll.questionHistory[Len(poll.questionHistory)].totalResponses = 0
        /\ ZeroVotes(poll.questionHistory[Len(poll.questionHistory)].options)

\* C22: a deletePoll of an existing poll removes the poll, the teacherToPoll
\* key of its teacher and the studentToPoll key of every student it held, so
\* that the lookups by its id, its teacher and its students find nothing; a
\* CREATE_POLL of that teacher right after it succeeds; and a deletePoll of
\* an id no poll has changes nothing
C22_DeleteRemovesSessionAndMappings ==
    /\ [][reply'.op = "deletePoll" =>
            \A p \in AdmissionPollIds :
                reply'.pollId = p =>
                    IF p \in DOMAIN polls
                    THEN /\ p \notin DOMAIN polls'
                         /\ polls[p].teacherSocketId \notin DOMAIN teacherToPoll'
                         /\ PollsOf(polls', polls[p].teacherSocketId) = {}
                         /\ \A i \in 1..Len(polls[p].students) :
                                polls[p].students[i].socketId \notin DOMAIN studentToPoll'
                         /\ \A k \in DOMAIN studentToPoll' : studentToPoll'[k] # p
                         /\ \A k \in DOMAIN teacherToPoll' : teacherToPoll'[k] # p
                    ELSE /\ polls' = polls
                         /\ teacherToPoll' = teacherToPoll
                         /\ studentToPoll' = studentToPoll
                         /\ timers' = timers
                         /\ cleared' = {}
                         /\ emitted' = <<>>
         ]_vars
    /\ [][(/\ reply.op = "deletePoll"
            /\ reply.socket # ""
            /\ reply'.op = "createPoll"
            /\ reply'.socket = reply.socket) =>
                /\ reply'.result = "ok"
                /\ PollsOf(polls', reply.socket) = {reply'.pollId}
         ]_vars

\* C22 witness: a poll that held students was deleted, its teacher has no
\* teacherToPoll key, and the other poll still has a student with its key
C22_Witness ==
    /\ reply.op = "deletePoll"
    /\ reply.socket \in AdmissionTeachers
    /\ reply.pollId \notin DOMAIN polls
    /\ reply.socket \notin DOMAIN teacherToPoll
    /\ \E p \in DOMAIN polls, k \in Students :
        /\ MapHas(polls[p].students, k)
        /\ k \in DOMAIN studentToPoll
        /\ studentToPoll[k] = p
    /\ \E k \in Students : k \in connected /\ k \notin DOMAIN studentToPoll

\* the request breaks one of the rules for options and deadline
InvalidOpen(options, timeout) ==
    \/ Len(options) < 2
    \/ Len(options) > 6
    \/ \E i, j \in 1..Len(options) : i # j /\ options[i] = options[j]
    \/ timeout < 10
    \/ timeout > 300

\* C23: a START_QUESTION with fewer than 2 or more than 6 options, with two
\* equal option texts, or with a timeout below 10 or above 300 is answered
\* with a validation error and changes no poll, arms and clears no timer, uses
\* no question id and broadcasts nothing, whatever the state of the sender's
\* poll; every other START_QUESTION is not answered with a validation error
C23_InvalidOpenIsRejected ==
    [][reply'.op = "startQuestion" =>
       \A k \in Teachers, o \in OptionInputs, t \in TimeoutInputs :
        (/\ reply'.socket = k
         /\ StartQuestionFail(k, o, t) \/ StartQuestionOk(k, o, t)) =>
            IF InvalidOpen(o, t)
            THEN /\ reply'.result = "Validation error"
                 /\ polls' = polls
                 /\ timers' = timers
                 /\ nextQuestion' = nextQuestion
                 /\ teacherToPoll' = teacherToPoll
                 /\ studentToPoll' = studentToPoll
                 /\ cleared' = {}
                 /\ emitted' = <<>>
            ELSE reply'.result # "Validation error"
      ]_vars

\* C23 witness: a START_QUESTION was answered with a validation error while
\* the sender's poll, with a student in it, waits without question and timer
C23_Witness ==
    /\ reply.op = "startQuestion"
    /\ reply.result = "Validation error"
    /\ getPollByTeacher(reply.socket) # ""
    /\ polls[getPollByTeacher(reply.socket)].status = "waiting"
    /\ polls[getPollByTeacher(reply.socket)].currentQuestion = NoQuestion
    /\ Len(polls[getPollByTeacher(reply.socket)].students) > 0
    /\ timers = {}

\* the pending timers of a poll id
TimersOf(pending, pollId) == {t \in pending : t.pollId = pollId}

\* the step changes the poll (its existence, students, question, votes,
\* history or status) or its pending timers
PollChanges(pollId) ==
    \/ (pollId \in DOMAIN polls) # (pollId \in DOMAIN polls')
    \/ pollId \in DOMAIN polls /\ pollId \in DOMAIN polls' /\ polls'[pollId] # polls[pollId]
    \/ TimersOf(timers', pollId) # TimersOf(timers, pollId)

\* C24: every step, successful or not, changes at most the poll it is
\* addressed to; every other poll keeps its students, question, vote counts,
\* history, status and pending timer
C24_SessionsAreIndependent ==
    [][\A p \in AdmissionPollIds : PollChanges(p) => reply'.pollId = p]_vars

\* C24 witness: the timer of one poll closed its question while the other
\* poll has a student, an open question and a pending timer
C24_Witness ==
    /\ reply.op = "timer"
    /\ reply.result = "closed"
    /\ \E p \in DOMAIN polls :
        /\ p # reply.pollId
        /\ polls[p].currentQuestion # NoQuestion
        /\ Len(polls[p].students) = 1
        /\ TimersOf(timers, p) # {}

\* C25 as claimed: for a student that is in a poll before and after a step,
\* hasAnswered goes from true to false only in a START_QUESTION that succeeds,
\* and a step in which the timer or END_QUESTION closes the question leaves
\* the hasAnswered and the answer of every student as they were
C25_HasAnsweredIsOneWay ==
    [][\A p \in PollIds :
        (p \in DOMAIN polls /\ p \in DOMAIN polls') =>
            \A k \in Students :
                (MapHas(polls[p].students, k) /\ MapHas(polls'[p].students, k)) =>
                    LET old == MapGet(polls[p].students, k)
                        new == MapGet(polls'[p].students, k)
                    IN  /\ (old.hasAnswered /\ ~new.hasAnswered) =>
                                (reply'.op = "startQuestion" /\ reply'.result = "ok")
                        /\ (/\ reply'.op \in {"timer", "endQuestion"}
                            /\ polls[p].currentQuestion # NoQuestion
                            /\ polls'[p].currentQuestion = NoQuestion) =>
                                /\ new.hasAnswered = old.hasAnswered
                                /\ new.answer = old.answer
      ]_vars

\* the vote counts of a sequence of options, in order
Votes(options) == [i \in 1..Len(options) |-> options[i].votes]

\* C26 as claimed: in every step that closes a question, the snapshot appended
\* to the history and the SHOW_RESULTS broadcast of that step carry the same
\* vote count for every option, the same totalResponses and the same
\* participant names
C26_SnapshotEqualsBroadcast ==
    [][\A p \in PollIds :
        (/\ p \in DOMAIN polls
         /\ p \in DOMAIN polls'
         /\ Len(polls'[p].questionHistory) = Len(polls[p].questionHistory) + 1) =>
            LET hn == polls'[p].questionHistory
                snapshot == hn[Len(hn)]
            IN  \E i \in 1..Len(emitted') :
                    /\ emitted'[i].event = "showResults"
                    /\ emitted'[i].room = p
                    /\ Votes(emitted'[i].results.options) = Votes(snapshot.options)
                    /\ emitted'[i].results.totalResponses = snapshot.totalResponses
                    /\ emitted'[i].results.participants = snapshot.participants
      ]_vars

\* C27 as claimed: whenever a poll has an open question, getPollResults and
\* calculateResults give the same vote count for every option, in the same
\* order, the same totalResponses and the same respondent names
C27_ReadEqualsAggregator ==
    \A p \in DOMAIN polls :
        polls[p].currentQuestion # NoQuestion =>
            /\ Votes(getPollResults(polls[p]).options) = Votes(calculateResults(polls[p]).options)
            /\ [i \in 1..Len(getPollResults(polls[p]).options) |->
                    getPollResults(polls[p]).options[i].id]
               = [i \in 1..Len(calculateResults(polls[p]).options) |->
                    calculateResults(polls[p]).options[i].id]
            /\ getPollResults(polls[p]).totalResponses = calculateResults(polls[p]).totalResponses
            /\ getPollResults(polls[p]).participants = calculateResults(polls[p]).participants

\* C28: in every state a poll that exists has a pending timer if and only if
\* it has an open question, it has at most one, and that timer carries the
\* open question's id and is the one the question holds the handle of; no
\* timer is pending for a poll id that no poll has; a step that closes a
\* question or deletes a poll with an open question without the timer firing
\* clears that question's timer; and a timer that fired is no longer pending
C28_TimerIffActiveQuestion ==
    /\ [](\A p \in AdmissionPollIds :
            IF p \in DOMAIN polls /\ polls[p].currentQuestion # NoQuestion
            THEN TimersOf(timers, p) =
                    {[handle |-> polls[p].currentQuestion.timerHandle, pollId |-> p,
                      questionId |-> polls[p].currentQuestion.id]}
            ELSE TimersOf(timers, p) = {})
    /\ [][\A p \in AdmissionPollIds :
            (/\ p \in DOMAIN polls
             /\ polls[p].currentQuestion # NoQuestion
             /\ p \in DOMAIN polls' => polls'[p].currentQuestion.id # polls[p].currentQuestion.id) =>
                IF reply'.op = "timer"
                THEN /\ cleared' = {}
                     /\ reply'.questionId = polls[p].currentQuestion.id
                     /\ \A t \in timers' : t.questionId # reply'.questionId
                ELSE /\ reply'.op \in {"submitAnswer", "endQuestion", "deletePoll"}
                     /\ cleared' = {polls[p].currentQuestion.timerHandle}
         ]_vars

\* C28 witness: the last outstanding answer closed the question, its timer
\* was cleared and nothing is pending for the poll
C28_Witness ==
    /\ reply.op = "submitAnswer"
    /\ reply.result = "ok"
    /\ cleared # {}
    /\ polls[reply.pollId].currentQuestion = NoQuestion
    /\ reply.questionId \in ClosedIds(polls, reply.pollId)
    /\ TimersOf(timers, reply.pollId) = {}

\* C29 as claimed: in every state getPollByStudent(k) is the poll p if and
\* only if p exists and k is among its students, and getPollByTeacher(k) is p
\* if and only if p exists and k is its teacher
C29_MappingsAgreeWithSessions ==
    /\ \A k \in Students, p \in AdmissionPollIds :
            (getPollByStudent(k) = p) <=> (p \in DOMAIN polls /\ MapHas(polls[p].students, k))
    /\ \A k \in AdmissionTeachers, p \in AdmissionPollIds :
            (getPollByTeacher(k) = p) <=> (p \in DOMAIN polls /\ polls[p].teacherSocketId = k)

\* the replies of the three ways a student is removed from a poll
RemovalOps == {"leavePoll", "removeStudent", "disconnect"}

\* C30: a step that removes a student (LEAVE_POLL, REMOVE_STUDENT, disconnect)
\* leaves every poll's open question, its options' vote counters, the history,
\* the status and the pending timers as they were, clears no timer and
\* broadcasts no results, also when every remaining student has answered; and
\* a step after which the open question of a poll that still exists is no
\* longer open is the timer firing, a successful submission or END_QUESTION
C30_RemovalNeverCloses ==
    [][/\ reply'.op \in RemovalOps =>
            /\ timers' = timers
            /\ cleared' = {}
            /\ \A i \in 1..Len(emitted') : emitted'[i].event \in {"studentLeft", "error"}
            /\ \A p \in DOMAIN polls :
                    /\ p \in DOMAIN polls'
                    /\ polls'[p].currentQuestion = polls[p].currentQuestion
                    /\ polls'[p].questionHistory = polls[p].questionHistory
                    /\ polls'[p].status = polls[p].status
       /\ \A p \in DOMAIN polls :
            (/\ polls[p].currentQuestion # NoQuestion
             /\ p \in DOMAIN polls'
             /\ polls'[p].currentQuestion = NoQuestion)
            => /\ reply'.op \in {"timer", "submitAnswer", "endQuestion"}
               /\ reply'.pollId = p
               /\ reply'.result \in {"ok", "closed"}]_vars

\* a student has just been removed from a poll with an open question in which
\* every remaining student has answered; the question is still open with its
\* votes and its timer
C30_Witness ==
    /\ reply.op \in RemovalOps
    /\ reply.pollId \in DOMAIN polls
    /\ polls[reply.pollId].currentQuestion # NoQuestion
    /\ Len(polls[reply.pollId].students) > 0
    /\ AnsweredCount(polls[reply.pollId]) = Len(polls[reply.pollId].students)
    /\ SumVotes(polls[reply.pollId].currentQuestion.options) > 0
    /\ TimersOf(timers, reply.pollId) # {}

\* the ids of the options of the poll's open question
OpenOptionIds(poll) ==
    {poll.currentQuestion.options[i].id : i \in 1..Len(poll.currentQuestion.options)}

\* C31: a successful JOIN_POLL into a poll whose question is open leaves the
\* question, its vote counters, the history, the status and the timers as
\* they were and broadcasts only STUDENT_JOINED; the joined student has
\* hasAnswered = FALSE, a submission by it of any option of that question would
\* be accepted, and checkAllAnswered is false right after the join.  A
\* submission is accepted only from a student that has not answered, and it
\* leaves the question open while another student of the poll has not answered.
C31_LateJoinerCounts ==
    [][/\ (/\ reply'.op = "joinPoll"
            /\ reply'.result = "ok"
            /\ polls[reply'.pollId].currentQuestion # NoQuestion)
           => LET p == reply'.pollId
                  k == reply'.socket
              IN  /\ MapHas(polls'[p].students, k)
                  /\ ~MapGet(polls'[p].students, k).hasAnswered
                  /\ polls'[p].currentQuestion = polls[p].currentQuestion
                  /\ polls'[p].questionHistory = polls[p].questionHistory
                  /\ polls'[p].status = polls[p].status
                  /\ timers' = timers
                  /\ cleared' = {}
                  /\ \A i \in 1..Len(emitted') : emitted'[i].event = "studentJoined"
                  /\ \A a \in OpenOptionIds(polls'[p]) :
                        submitAnswerError(polls'[p], k, polls'[p].currentQuestion.id, a) = ""
                  /\ ~checkAllAnswered(polls'[p])
       /\ (/\ reply'.op = "submitAnswer"
            /\ reply'.result = "ok")
           => LET p == reply'.pollId
                  k == reply'.socket
              IN  /\ ~MapGet(polls[p].students, k).hasAnswered
                  /\ (\E i \in 1..Len(polls[p].students) :
                            /\ polls[p].students[i].socketId # k
                            /\ ~polls[p].students[i].hasAnswered)
                        => /\ polls'[p].currentQuestion # NoQuestion
                           /\ polls'[p].currentQuestion.id = polls[p].currentQuestion.id
                           /\ polls'[p].questionHistory = polls[p].questionHistory]_vars

\* a student has just joined a poll whose open question already has a vote;
\* the other student has answered and the joined one has not
C31_Witness ==
    /\ reply.op = "joinPoll"
    /\ reply.result = "ok"
    /\ polls[reply.pollId].currentQuestion # NoQuestion
    /\ SumVotes(polls[reply.pollId].currentQuestion.options) > 0
    /\ Len(polls[reply.pollId].students) = 2
    /\ AnsweredCount(polls[reply.pollId]) = 1
    /\ ~MapGet(polls[reply.pollId].students, reply.socket).hasAnswered

\* the positions in a sequence of broadcasts of the given event for the given
\* room and question
EmitsOf(emits, event, room, questionId) ==
    {i \in 1..Len(emits) : /\ emits[i].event = event
                           /\ emits[i].room = room
                           /\ emits[i].questionId = questionId}

\* C32: in the broadcasts of every step, in the order they are emitted:
\* NEW_QUESTION is alone in its step and carries an id that no earlier step
\* has used, so no ANSWER_RECEIVED for it came before; ANSWER_RECEIVED is for
\* the question that was open before the step, which is not in the history,
\* and comes before every SHOW_RESULTS of the step; SHOW_RESULTS is for a
\* question the step appends to the history; and a question the step appends
\* to the history gets exactly one SHOW_RESULTS
C32_BroadcastOrder ==
    [][/\ \A i \in 1..Len(emitted') :
            LET e == emitted'[i] IN
            /\ e.event = "newQuestion"
                => /\ Len(emitted') = 1
                   /\ e.questionId > nextQuestion
                   /\ e.questionId = nextQuestion'
            /\ e.event = "answerReceived"
                => /\ e.room \in DOMAIN polls
                   /\ polls[e.room].currentQuestion # NoQuestion
                   /\ polls[e.room].currentQuestion.id = e.questionId
                   /\ e.questionId <= nextQuestion
                   /\ e.questionId \notin ClosedIds(polls, e.room)
                   /\ \A j \in 1..Len(emitted') :
                        emitted'[j].event = "showResults" => i < j
            /\ e.event = "showResults"
                => /\ e.room \in DOMAIN polls'
                   /\ e.questionId \notin ClosedIds(polls, e.room)
                   /\ e.questionId \in ClosedIds(polls', e.room)
       /\ \A p \in (DOMAIN polls) \cap (DOMAIN polls') :
            \A q \in ClosedIds(polls', p) \ ClosedIds(polls, p) :
                Cardinality(EmitsOf(emitted', "showResults", p, q)) = 1]_vars

\* the submission of the last of two students has closed the question: its
\* ANSWER_RECEIVED was followed by TIME_UP and SHOW_RESULTS
C32_Witness ==
    /\ reply.op = "submitAnswer"
    /\ reply.result = "ok"
    /\ Len(polls[reply.pollId].students) = 2
    /\ reply.questionId \in ClosedIds(polls, reply.pollId)
    /\ Len(emitted) = 3
    /\ emitted[1].event = "answerReceived"
    /\ emitted[3].event = "showResults"
    /\ emitted[3].questionId = reply.questionId

\* the poll's teacher has disconnected
TeacherGone(ps, pollId) == ps[pollId].teacherSocketId \notin connected

====
